---- MODULE Spec2Model ----
(***************************************************************************)
(* Model of OdooAPI (src/api.py): an XML-RPC client that caches the uid    *)
(* returned by the common endpoint and funnels every model operation       *)
(* through execute_kw.  Each remote call is split into the step that       *)
(* issues it and the step that receives the server's answer, so that the   *)
(* reads and writes of self.uid by two callers can interleave.             *)
(***************************************************************************)
EXTENDS Integers, Sequences, FiniteSets, TLC

\* ------------------------------------------------------------------ bounds
MaxOps == 2          \* operations run one after the other on the client
MaxPages == 2        \* non-empty pages a free server returns to one read
MaxRecords == 3      \* size of the record set a slice server holds

Callers == {1, 2}
Offsets == {0, 1}
Limits == {0, 1, 2}
Domains == {"None", "[('active','=',True)]"}
ValuesIn == {"{'name':'Acme'}", "{'name':'Bolt'}"}
RecordIds == {7, 8}
FaultStrings == {"Access Denied", "Record does not exist"}
Pages == {<<>>, <<1>>, <<2, 1>>}

\* ------------------------------------------------------------ Python values
PyNone == <<"None", 0>>
PyFalse == <<"bool", 0>>
PyTrue == <<"bool", 1>>
PyInt(n) == <<"int", n>>
PyList == <<"list", 0>>

\* bool(v) of Python for the values above
Truthy(v) == ~(v = PyNone \/ (v[1] \in {"bool", "int"} /\ v[2] = 0))

\* what common.authenticate can answer: False (credentials rejected), a uid
AuthAnswers == {PyFalse, PyInt(0), PyInt(2)}
\* what object.execute_kw can answer for a method other than search_read
CallAnswers == {PyInt(41), PyTrue}

\* -------------------------------------------------------------- exceptions
NoExc == [kind |-> "none", src |-> "", msg |-> ""]
Fault(src, m) == [kind |-> "Fault", src |-> src, msg |-> m]
OtherError(src) == [kind |-> "Exception", src |-> src, msg |-> "Connection refused"]

\* the result of a call: nothing yet, a returned value, or a raised exception
NoResult == [kind |-> "none", val |-> PyNone, recs |-> <<>>, exc |-> NoExc]
Return(v) == [kind |-> "return", val |-> v, recs |-> <<>>, exc |-> NoExc]
ReturnList(l) == [kind |-> "return", val |-> PyList, recs |-> l, exc |-> NoExc]
Raise(e) == [kind |-> "raise", val |-> PyNone, recs |-> <<>>, exc |-> e]

\* ---------------------------------------------------- arguments of a call
ADict(s) == [tag |-> "dict", s |-> s, ids |-> <<>>, n |-> 0]
AList(s) == [tag |-> "list", s |-> s, ids |-> <<>>, n |-> 0]
AIds(ids) == [tag |-> "list", s |-> "", ids |-> ids, n |-> 0]
AInt(n) == [tag |-> "int", s |-> "", ids |-> <<>>, n |-> n]
AStr(s) == [tag |-> "str", s |-> s, ids |-> <<>>, n |-> 0]

\* `x or []` for an optional list argument
OrEmpty(x) == IF x = "None" THEN "[]" ELSE x

VARIABLES
    uid,            \* self.uid
    server,         \* how the server answers search_read
    pc,             \* per caller: position in the code
    op,             \* per caller: the public method running, with its arguments
    ek,             \* per caller: arguments of the running execute_kw
    ret,            \* per caller: what execute_kw handed to the method
    offset,         \* per caller: read_records' offset
    all_records,    \* per caller: read_records' all_records
    total_records,  \* per caller: read_records' total_records
    outcome,        \* per caller: how the last method ended
    calls,          \* per caller: remote calls the method issued, in order
    invocations,    \* per caller: execute_kw invocations of the method
    pages,          \* per caller: pages received by the running read_records
    log,            \* per caller: log entries of the method
    raised,         \* per caller: exceptions the remote calls raised
    ended,          \* how each completed method ended, oldest first
    entry_uid,      \* per caller: self.uid when the running method was called
    authOnly,       \* every method started so far was authenticate()
    authTotal,      \* remote authenticate calls issued since construction
    authReturned    \* values the remote authenticate calls returned

vars == <<uid, server, pc, op, ek, ret, offset, all_records, total_records,
          outcome, calls, invocations, pages, log, raised, ended, entry_uid,
          authOnly, authTotal, authReturned>>

NoOp == [name |-> "none", model |-> "", method |-> "", values |-> "",
         record_id |-> 0, domain |-> "", fields |-> "", offset |-> 0,
         limit |-> 0, order |-> ""]
NoEk == [model |-> "", method |-> "", args |-> <<>>]

\* src/api.py:17-25
Init ==
    /\ uid = PyNone
    /\ server \in [mode : {"free"}, n : {0}]
                  \cup [mode : {"slice"}, n : 0..MaxRecords]
    /\ pc = [t \in Callers |-> "idle"]
    /\ op = [t \in Callers |-> NoOp]
    /\ ek = [t \in Callers |-> NoEk]
    /\ ret = [t \in Callers |-> NoResult]
    /\ offset = [t \in Callers |-> 0]
    /\ all_records = [t \in Callers |-> <<>>]
    /\ total_records = [t \in Callers |-> 0]
    /\ outcome = [t \in Callers |-> NoResult]
    /\ calls = [t \in Callers |-> <<>>]
    /\ invocations = [t \in Callers |-> <<>>]
    /\ pages = [t \in Callers |-> <<>>]
    /\ log = [t \in Callers |-> <<>>]
    /\ raised = [t \in Callers |-> <<>>]
    /\ ended = <<>>
    /\ entry_uid = [t \in Callers |-> PyNone]
    /\ authOnly = TRUE
    /\ authTotal = 0
    /\ authReturned = {}

\* ------------------------------------------------------- code, as operators
Db == "prod"
Username == "admin"
Password == "secret"

\* a slip: `if self.uid: return`
UidIsCached_Truthy(u) == Truthy(u)

\* a slip: the guard is dropped and every call authenticates again
UidIsCached_Never(u) == FALSE

\* src/api.py:34  `if self.uid is not None: return`
UidIsCached(u) == u # PyNone

\* a slip: `if self.uid:`
NotUid_Inverted(u) == Truthy(u)

\* src/api.py:59  `if not self.uid:`
NotUid(u) == ~Truthy(u)

\* src/api.py:37  common_proxy.authenticate(db_name, username, password, {})
AuthRequest ==
    [ep |-> "common", method |-> "authenticate", db |-> Db, user |-> Username,
     password |-> Password, uid |-> PyNone, model |-> "", inner |-> "",
     args |-> <<>>]

\* src/api.py:62  models_proxy.execute_kw(db_name, uid, password, model, method, args)
ModelRequest(u, e) ==
    [ep |-> "object", method |-> "execute_kw", db |-> Db, user |-> "",
     password |-> Password, uid |-> u, model |-> e.model, inner |-> e.method,
     args |-> e.args]

LogEntry(level, text, m) == [level |-> level, text |-> text, msg |-> m]

\* src/api.py:38-43  the log entries of authenticate's two except clauses
AuthenticateLog(e) ==
    IF e.kind = "Fault"
    THEN <<LogEntry("error", "Authentication failed", e.msg)>>
    ELSE <<LogEntry("error", "Unexpected error during authentication", e.msg)>>

\* a slip: the Fault is re-raised without the logger call
ExecuteKwLog_Silent(e) == <<>>

\* src/api.py:63-65  execute_kw has one except clause, for Fault
ExecuteKwLog(e) ==
    IF e.kind = "Fault"
    THEN <<LogEntry("error", "Odoo API call failed", e.msg)>>
    ELSE <<>>

\* src/api.py:83-85, 132-134, 149-151  the except clause of a write method
MethodLog(text, e) ==
    IF e.kind = "Fault" THEN <<LogEntry("error", text, e.msg)>> ELSE <<>>

\* src/api.py:81  execute_kw(model, 'create', [values])
CreateCall(model, values) ==
    [model |-> model, method |-> "create", args |-> <<ADict(values)>>]

\* a slip: record_id is passed without the list around it
WriteCall_Unwrapped(model, record_id, values) ==
    [model |-> model, method |-> "write",
     args |-> <<AInt(record_id), ADict(values)>>]

\* src/api.py:131  execute_kw(model, 'write', [[record_id], values])
WriteCall(model, record_id, values) ==
    [model |-> model, method |-> "write",
     args |-> <<AIds(<<record_id>>), ADict(values)>>]

\* src/api.py:148  execute_kw(model, 'unlink', [[record_id]])
UnlinkCall(model, record_id) ==
    [model |-> model, method |-> "unlink", args |-> <<AIds(<<record_id>>)>>]

\* src/api.py:108  execute_kw(model, 'search_read', [domain or [], fields or [], offset, limit, order])
SearchReadCall(model, domain, fields, off, limit, order) ==
    [model |-> model, method |-> "search_read",
     args |-> <<AList(OrEmpty(domain)), AList(OrEmpty(fields)), AInt(off),
                AInt(limit), AStr(order)>>]

\* a slip: the loop stops on a page of fewer than two records
NotRecords_Short(records) == Len(records) < 2

\* src/api.py:109  `if not records:`
NotRecords(records) == records = <<>>

\* src/api.py:112  all_records.extend(records)
Extend(all, records) == all \o records

\* a slip: offset += 1
AdvanceOffset_ByPage(off, limit) == off + 1

\* src/api.py:113  offset += limit
AdvanceOffset(off, limit) == off + limit

\* ------------------------------------------------------------- the server
Min(a, b) == IF a <= b THEN a ELSE b
ServerRecords == [i \in 1..server.n |-> i]
\* the records at positions [off, off+limit) of s
Slice(s, off, limit) == SubSeq(s, off + 1, Min(off + limit, Len(s)))

\* the pages the server may answer to the search_read request rq of caller t
PageAnswers(t, rq) ==
    IF server.mode = "slice"
    THEN {Slice(ServerRecords, rq.args[3].n, rq.args[4].n)}
    ELSE {p \in Pages : p # <<>> => Len(pages[t]) < MaxPages}

\* --------------------------------------------------------- control transfer
Last(s) == s[Len(s)]

\* the public method of caller t ends with result res
Finish(t, res) ==
    /\ pc' = [pc EXCEPT ![t] = "idle"]
    /\ outcome' = [outcome EXCEPT ![t] = res]
    /\ ended' = Append(ended, res.kind)

\* control leaves execute_kw (src/api.py:62, 65): to the caller of invoke, or
\* into the try block of the method that called it
LeaveExecuteKw(t, res) ==
    IF op[t].name = "invoke"
    THEN Finish(t, res) /\ ret' = ret
    ELSE /\ pc' = [pc EXCEPT ![t] = "handle"]
         /\ ret' = [ret EXCEPT ![t] = res]
         /\ UNCHANGED <<outcome, ended>>

\* control leaves authenticate (src/api.py:35, 37, 40, 43): to the caller of
\* authenticate, or to line 61 of execute_kw; an exception passes through
\* execute_kw, whose line 60 is outside its try block
LeaveAuthenticate(t, res) ==
    IF op[t].name = "authenticate"
    THEN Finish(t, res) /\ ret' = ret
    ELSE IF res.kind = "return"
         THEN /\ pc' = [pc EXCEPT ![t] = "ek_call"]
              /\ UNCHANGED <<ret, outcome, ended>>
         ELSE LeaveExecuteKw(t, res)

\* a public method starts: its record of calls, log entries and result is new
Begin(t, o, e, first) ==
    /\ pc[t] = "idle"
    /\ op' = [op EXCEPT ![t] = o]
    /\ ek' = [ek EXCEPT ![t] = e]
    /\ invocations' = [invocations EXCEPT ![t] = IF e = NoEk THEN <<>> ELSE <<e>>]
    /\ pc' = [pc EXCEPT ![t] = first]
    /\ ret' = [ret EXCEPT ![t] = NoResult]
    /\ outcome' = [outcome EXCEPT ![t] = NoResult]
    /\ calls' = [calls EXCEPT ![t] = <<>>]
    /\ pages' = [pages EXCEPT ![t] = <<>>]
    /\ log' = [log EXCEPT ![t] = <<>>]
    /\ raised' = [raised EXCEPT ![t] = <<>>]
    /\ offset' = [offset EXCEPT ![t] = o.offset]
    /\ all_records' = [all_records EXCEPT ![t] = <<>>]
    /\ total_records' = [total_records EXCEPT ![t] = 0]
    /\ entry_uid' = [entry_uid EXCEPT ![t] = uid]
    /\ authOnly' = (authOnly /\ o.name = "authenticate")
    /\ UNCHANGED <<uid, server, ended, authTotal, authReturned>>

\* ------------------------------------------------------------ authenticate
\* src/api.py:27  authenticate() called by the user
authenticate(t) ==
    /\ Len(ended) < MaxOps
    /\ Begin(t, [NoOp EXCEPT !.name = "authenticate"], NoEk, "auth_check")

\* src/api.py:34-35
authenticate_check(t) ==
    /\ pc[t] = "auth_check"
    /\ IF UidIsCached(uid)
       THEN LeaveAuthenticate(t, Return(PyNone))
       ELSE /\ pc' = [pc EXCEPT ![t] = "auth_call"]
            /\ UNCHANGED <<ret, outcome, ended>>
    /\ UNCHANGED <<uid, server, op, ek, offset, all_records, total_records,
                   calls, invocations, pages, log, raised, entry_uid, authOnly,
                   authTotal, authReturned>>

\* src/api.py:37  the request leaves; the caller blocks
authenticate_send(t) ==
    /\ pc[t] = "auth_call"
    /\ calls' = [calls EXCEPT ![t] = Append(@, AuthRequest)]
    /\ authTotal' = authTotal + 1
    /\ pc' = [pc EXCEPT ![t] = "auth_wait"]
    /\ UNCHANGED <<uid, server, op, ek, ret, offset, all_records,
                   total_records, outcome, invocations, pages, log, raised,
                   ended, entry_uid, authOnly, authReturned>>

\* src/api.py:37  the answer arrives and is assigned to self.uid
authenticate_return(t) ==
    /\ pc[t] = "auth_wait"
    /\ \E v \in AuthAnswers :
        /\ uid' = v
        /\ authReturned' = authReturned \cup {v}
    /\ LeaveAuthenticate(t, Return(PyNone))
    /\ UNCHANGED <<server, op, ek, offset, all_records, total_records, calls,
                   invocations, pages, log, raised, entry_uid, authOnly, authTotal>>

\* src/api.py:38-43  the call raises: a Fault or any other exception
authenticate_raise(t) ==
    /\ pc[t] = "auth_wait"
    /\ \E e \in {Fault("common", m) : m \in FaultStrings} \cup {OtherError("common")} :
        /\ raised' = [raised EXCEPT ![t] = Append(@, e)]
        /\ log' = [log EXCEPT ![t] = @ \o AuthenticateLog(e)]
        /\ LeaveAuthenticate(t, Raise(e))
    /\ UNCHANGED <<uid, server, op, ek, offset, all_records, total_records,
                   calls, invocations, pages, entry_uid, authOnly, authTotal,
                   authReturned>>

\* -------------------------------------------------------------- execute_kw
InvokeCall == [model |-> "res.partner", method |-> "search_count",
               args |-> <<AList("[]")>>]

\* src/api.py:45  execute_kw(model, method, args) called by the user
execute_kw(t) ==
    /\ Len(ended) < MaxOps
    /\ Begin(t, [NoOp EXCEPT !.name = "invoke", !.model = InvokeCall.model,
                             !.method = InvokeCall.method],
             InvokeCall, "ek_check")

\* src/api.py:59-60
execute_kw_check(t) ==
    /\ pc[t] = "ek_check"
    /\ pc' = [pc EXCEPT ![t] = IF NotUid(uid) THEN "auth_check" ELSE "ek_call"]
    /\ UNCHANGED <<uid, server, op, ek, ret, offset, all_records,
                   total_records, outcome, calls, invocations, pages, log,
                   raised, ended, entry_uid, authOnly, authTotal, authReturned>>

\* src/api.py:62  self.uid is read and the request leaves; the caller blocks
execute_kw_send(t) ==
    /\ pc[t] = "ek_call"
    /\ calls' = [calls EXCEPT ![t] = Append(@, ModelRequest(uid, ek[t]))]
    /\ pc' = [pc EXCEPT ![t] = "ek_wait"]
    /\ UNCHANGED <<uid, server, op, ek, ret, offset, all_records,
                   total_records, outcome, invocations, pages, log, raised,
                   ended, entry_uid, authOnly, authTotal, authReturned>>

\* src/api.py:62  the answer of a method other than search_read is returned
execute_kw_return(t) ==
    /\ pc[t] = "ek_wait"
    /\ ek[t].method # "search_read"
    /\ \E v \in CallAnswers : LeaveExecuteKw(t, Return(v))
    /\ UNCHANGED <<uid, server, op, ek, offset, all_records, total_records,
                   calls, invocations, pages, log, raised, entry_uid, authOnly,
                   authTotal, authReturned>>

\* src/api.py:62  the answer of search_read, a list of records, is returned
execute_kw_return_page(t) ==
    /\ pc[t] = "ek_wait"
    /\ ek[t].method = "search_read"
    /\ \E p \in PageAnswers(t, Last(calls[t])) :
        /\ pages' = [pages EXCEPT ![t] = Append(@, p)]
        /\ LeaveExecuteKw(t, ReturnList(p))
    /\ UNCHANGED <<uid, server, op, ek, offset, all_records, total_records,
                   calls, invocations, log, raised, entry_uid, authOnly, authTotal,
                   authReturned>>

\* src/api.py:63-65  the call raises; only a Fault is caught and logged
execute_kw_raise(t) ==
    /\ pc[t] = "ek_wait"
    /\ ~(server.mode = "slice" /\ ek[t].method = "search_read")
    /\ \E e \in {Fault("object", m) : m \in FaultStrings} \cup {OtherError("object")} :
        /\ raised' = [raised EXCEPT ![t] = Append(@, e)]
        /\ log' = [log EXCEPT ![t] = @ \o ExecuteKwLog(e)]
        /\ LeaveExecuteKw(t, Raise(e))
    /\ UNCHANGED <<uid, server, op, ek, offset, all_records, total_records,
                   calls, invocations, pages, entry_uid, authOnly, authTotal,
                   authReturned>>

\* ----------------------------------------------------------- create_record
Model == "res.partner"

\* src/api.py:67, 80-81  create_record(model, values) called by the user
create_record(t) ==
    /\ Len(ended) < MaxOps
    /\ \E values \in ValuesIn :
        Begin(t, [NoOp EXCEPT !.name = "create", !.model = Model, !.values = values],
              CreateCall(Model, values), "ek_check")

\* src/api.py:81-85  execute_kw has returned or raised
create_record_handle(t) ==
    /\ pc[t] = "handle"
    /\ op[t].name = "create"
    /\ IF ret[t].kind = "return"
       THEN Finish(t, Return(ret[t].val)) /\ log' = log
       ELSE /\ log' = [log EXCEPT ![t] = @ \o MethodLog("Create operation failed", ret[t].exc)]
            /\ Finish(t, Raise(ret[t].exc))
    /\ UNCHANGED <<uid, server, op, ek, ret, offset, all_records,
                   total_records, calls, invocations, pages, raised, entry_uid, authOnly,
                   authTotal, authReturned>>

\* ----------------------------------------------------------- update_record
\* src/api.py:118, 130-131  update_record(model, record_id, values) called by the user
update_record(t) ==
    /\ Len(ended) < MaxOps
    /\ \E values \in ValuesIn, record_id \in RecordIds :
        Begin(t, [NoOp EXCEPT !.name = "update", !.model = Model,
                              !.values = values, !.record_id = record_id],
              WriteCall(Model, record_id, values), "ek_check")

\* src/api.py:131-134  execute_kw has returned (its result is dropped) or raised
update_record_handle(t) ==
    /\ pc[t] = "handle"
    /\ op[t].name = "update"
    /\ IF ret[t].kind = "return"
       THEN Finish(t, Return(PyNone)) /\ log' = log
       ELSE /\ log' = [log EXCEPT ![t] = @ \o MethodLog("Update operation failed", ret[t].exc)]
            /\ Finish(t, Raise(ret[t].exc))
    /\ UNCHANGED <<uid, server, op, ek, ret, offset, all_records,
                   total_records, calls, invocations, pages, raised, entry_uid, authOnly,
                   authTotal, authReturned>>

\* ----------------------------------------------------------- delete_record
\* src/api.py:136, 147-148  delete_record(model, record_id) called by the user
delete_record(t) ==
    /\ Len(ended) < MaxOps
    /\ \E record_id \in RecordIds :
        Begin(t, [NoOp EXCEPT !.name = "delete", !.model = Model,
                              !.record_id = record_id],
              UnlinkCall(Model, record_id), "ek_check")

\* src/api.py:148-151  execute_kw has returned (its result is dropped) or raised
delete_record_handle(t) ==
    /\ pc[t] = "handle"
    /\ op[t].name = "delete"
    /\ IF ret[t].kind = "return"
       THEN Finish(t, Return(PyNone)) /\ log' = log
       ELSE /\ log' = [log EXCEPT ![t] = @ \o MethodLog("Delete operation failed", ret[t].exc)]
            /\ Finish(t, Raise(ret[t].exc))
    /\ UNCHANGED <<uid, server, op, ek, ret, offset, all_records,
                   total_records, calls, invocations, pages, raised, entry_uid, authOnly,
                   authTotal, authReturned>>

\* ------------------------------------------------------------ read_records
Fields == "None"
Order == "id desc"

\* src/api.py:87, 105-108  read_records(model, domain, fields, offset, limit, order)
\* called by the user, up to the first execute_kw
read_records(t) ==
    /\ Len(ended) < MaxOps
    /\ \E domain \in Domains, off \in Offsets, limit \in Limits :
        Begin(t, [NoOp EXCEPT !.name = "read", !.model = Model, !.domain = domain,
                              !.fields = Fields, !.offset = off, !.limit = limit,
                              !.order = Order],
              SearchReadCall(Model, domain, Fields, off, limit, Order), "ek_check")

\* src/api.py:108  an exception of execute_kw leaves read_records: it has no try
read_records_raise(t) ==
    /\ pc[t] = "handle"
    /\ op[t].name = "read"
    /\ ret[t].kind = "raise"
    /\ Finish(t, Raise(ret[t].exc))
    /\ UNCHANGED <<uid, server, op, ek, ret, offset, all_records,
                   total_records, calls, invocations, pages, log, raised,
                   entry_uid, authOnly, authTotal, authReturned>>

\* src/api.py:109-111, 115-116  an empty page ends the loop
read_records_break(t) ==
    /\ pc[t] = "handle"
    /\ op[t].name = "read"
    /\ ret[t].kind = "return"
    /\ NotRecords(ret[t].recs)
    /\ log' = [log EXCEPT ![t] = @ \o
                 <<LogEntry("info", "No records to retrieve.", ""),
                   LogEntry("info", "Total records retrieved", "")>>]
    /\ Finish(t, ReturnList(all_records[t]))
    /\ UNCHANGED <<uid, server, op, ek, ret, offset, all_records,
                   total_records, calls, invocations, pages, raised, entry_uid, authOnly,
                   authTotal, authReturned>>

\* src/api.py:112-114, 107-108  a page is kept and the next one is asked for
read_records_next(t) ==
    /\ pc[t] = "handle"
    /\ op[t].name = "read"
    /\ ret[t].kind = "return"
    /\ ~NotRecords(ret[t].recs)
    /\ all_records' = [all_records EXCEPT ![t] = Extend(@, ret[t].recs)]
    /\ offset' = [offset EXCEPT ![t] = AdvanceOffset(@, op[t].limit)]
    /\ total_records' = [total_records EXCEPT ![t] = @ + Len(ret[t].recs)]
    /\ LET e == SearchReadCall(op[t].model, op[t].domain, op[t].fields,
                               offset'[t], op[t].limit, op[t].order)
       IN  /\ ek' = [ek EXCEPT ![t] = e]
           /\ invocations' = [invocations EXCEPT ![t] = Append(@, e)]
    /\ pc' = [pc EXCEPT ![t] = "ek_check"]
    /\ UNCHANGED <<uid, server, op, ret, outcome, calls, pages, log, raised,
                   ended, entry_uid, authOnly, authTotal, authReturned>>

\* ---------------------------------------------------------- specifications
\* the steps inside a public method, whoever runs it
Step(t) ==
    \/ authenticate_check(t)
    \/ authenticate_send(t)
    \/ authenticate_return(t)
    \/ authenticate_raise(t)
    \/ execute_kw_check(t)
    \/ execute_kw_send(t)
    \/ execute_kw_return(t)
    \/ execute_kw_return_page(t)
    \/ execute_kw_raise(t)
    \/ create_record_handle(t)
    \/ update_record_handle(t)
    \/ delete_record_handle(t)
    \/ read_records_raise(t)
    \/ read_records_break(t)
    \/ read_records_next(t)

\* one caller runs the public methods one after the other
Next ==
    \/ authenticate(1)
    \/ execute_kw(1)
    \/ create_record(1)
    \/ read_records(1)
    \/ update_record(1)
    \/ delete_record(1)
    \/ Step(1)

Spec == Init /\ [][Next]_vars

\* the calls are blocking and the server answers each of them
FairSpec == Spec /\ WF_vars(Next)

\* two callers share the client; each runs execute_kw once
execute_kw_shared(t) ==
    /\ outcome[t].kind = "none"
    /\ Begin(t, [NoOp EXCEPT !.name = "invoke", !.model = InvokeCall.model,
                             !.method = InvokeCall.method],
             InvokeCall, "ek_check")

NextShared ==
    \E t \in Callers :
        \/ execute_kw_shared(t)
        \/ authenticate_check(t)
        \/ authenticate_send(t)
        \/ authenticate_return(t)
        \/ authenticate_raise(t)
        \/ execute_kw_check(t)
        \/ execute_kw_send(t)
        \/ execute_kw_return(t)
        \/ execute_kw_raise(t)

SpecShared == Init /\ [][NextShared]_vars

\* ------------------------------------------------------------- observations
AuthCalls(t) == SelectSeq(calls[t], LAMBDA r : r.ep = "common")
ModelCalls(t) == SelectSeq(calls[t], LAMBDA r : r.ep = "object")

\* the public method of caller t has ended and the next one has not started
Done(t) == pc[t] = "idle" /\ op[t].name # "none"

RECURSIVE C4_Concat(_)
C4_Concat(ps) == IF ps = <<>> THEN <<>> ELSE Head(ps) \o C4_Concat(Tail(ps))

ErrorLogged(t, m) ==
    \E j \in 1..Len(log[t]) : log[t][j].level = "error" /\ log[t][j].msg = m

\* ------------------------------------------------------------------ claims

\* C1: once self.uid has been set by an authentication call, no step changes
\* or unsets it, no step issues another remote authenticate call, and every
\* model call issued from then on carries that uid.
C1_IdentityNeverChanges ==
    [][uid # PyNone =>
        /\ uid' = uid
        /\ authTotal' = authTotal
        /\ \A t \in Callers :
            Len(calls'[t]) > Len(calls[t]) =>
                /\ Last(calls'[t]).ep = "object"
                /\ Last(calls'[t]).uid = uid]_vars

\* a method called with the uid already set has issued its model call with it
C1_Witness ==
    /\ Done(1)
    /\ Len(ended) >= 2
    /\ entry_uid[1] # PyNone
    /\ entry_uid[1] = uid
    /\ ModelCalls(1) # <<>>
    /\ Last(calls[1]).uid = uid

\* C2 as stated: execute_kw called with the uid unset issues one remote
\* authenticate call and then one model call; called with the uid set it
\* issues the model call alone.
C2_Original ==
    (Done(1) /\ op[1].name = "invoke") =>
        IF entry_uid[1] = PyNone
        THEN /\ Len(calls[1]) = 2
             /\ calls[1][1].ep = "common"
             /\ calls[1][2].ep = "object"
        ELSE /\ Len(calls[1]) = 1
             /\ calls[1][1].ep = "object"

\* C2 amended: with the uid unset, one remote authenticate call is issued
\* first; one model call follows it when it returns and none when it raises.
\* With the uid set, the model call alone is issued.
C2_Amended ==
    (Done(1) /\ op[1].name = "invoke") =>
        IF entry_uid[1] = PyNone
        THEN /\ Len(calls[1]) >= 1
             /\ calls[1][1].ep = "common"
             /\ IF raised[1] # <<>> /\ raised[1][1].src = "common"
                THEN Len(calls[1]) = 1
                ELSE Len(calls[1]) = 2 /\ calls[1][2].ep = "object"
        ELSE /\ Len(calls[1]) = 1
             /\ calls[1][1].ep = "object"

\* execute_kw on a fresh client has authenticated and sent its model call
C2_Witness ==
    /\ Done(1)
    /\ op[1].name = "invoke"
    /\ entry_uid[1] = PyNone
    /\ Len(calls[1]) = 2
    /\ outcome[1].kind = "return"

\* C3 as stated: after authenticate() has been called twice on a fresh client,
\* one remote authenticate call has been issued, however the first call ended.
C3_Original ==
    (Len(ended) = 2 /\ authOnly /\ pc[1] = "idle") => authTotal = 1

\* C3 amended: one remote call has been issued when the first authenticate()
\* returned; two when it raised, the second call asking the server again.
C3_Amended ==
    (Len(ended) = 2 /\ authOnly /\ pc[1] = "idle") =>
        authTotal = IF ended[1] = "return" THEN 1 ELSE 2

\* authenticate() has been called twice and the first call returned
C3_Witness ==
    /\ Len(ended) = 2
    /\ authOnly
    /\ pc[1] = "idle"
    /\ ended[1] = "return"
    /\ authTotal = 1

\* C4: a read_records that was answered k non-empty pages and then an empty
\* one returns the k pages concatenated in order, having issued k+1 model
\* calls, the i-th with offset o + (i-1)*limit and the limit, domain, fields
\* and order it was called with.
C4_ReadConcatenatesPages ==
    (Done(1) /\ op[1].name = "read" /\ outcome[1].kind = "return") =>
        LET k == Len(pages[1]) - 1
            mc == ModelCalls(1)
        IN  /\ k >= 0
            /\ pages[1][k + 1] = <<>>
            /\ \A i \in 1..k : pages[1][i] # <<>>
            /\ outcome[1].recs = C4_Concat(SubSeq(pages[1], 1, k))
            /\ Len(mc) = k + 1
            /\ \A i \in 1..(k + 1) :
                /\ mc[i].model = op[1].model
                /\ mc[i].inner = "search_read"
                /\ mc[i].args =
                     <<AList(OrEmpty(op[1].domain)), AList(OrEmpty(op[1].fields)),
                       AInt(op[1].offset + (i - 1) * op[1].limit),
                       AInt(op[1].limit), AStr(op[1].order)>>

\* two non-empty pages were read from offset 1 with limit 2
C4_Witness ==
    /\ Done(1)
    /\ op[1].name = "read"
    /\ outcome[1].kind = "return"
    /\ Len(pages[1]) = 3
    /\ op[1].offset = 1
    /\ op[1].limit = 2
    /\ Len(outcome[1].recs) = 3

\* C5: against a server that answers search_read with the slice
\* [offset, offset+limit) of a fixed record set, a read_records with
\* limit >= 1 ends; once its first search_read is out it returns, with the
\* records from its starting offset onward once each and in order, and it has
\* stopped on the first empty page only: every page before the last is
\* non-empty, short ones included, so the calls number ceil(left/limit) + 1.
\* (It ends without a call, raising, only when authenticate raised.)
C5_SliceRead ==
    /\ server.mode = "slice"
    /\ op[1].name = "read"
    /\ op[1].limit >= 1

C5_Result ==
    (C5_SliceRead /\ Done(1)) =>
        IF ModelCalls(1) = <<>>
        THEN outcome[1].kind = "raise" /\ outcome[1].exc.src = "common"
        ELSE LET n == Len(pages[1])
                 left == IF server.n > op[1].offset
                         THEN server.n - op[1].offset ELSE 0
             IN  /\ outcome[1].kind = "return"
                 /\ outcome[1].recs = [i \in 1..left |-> op[1].offset + i]
                 /\ n >= 1
                 /\ pages[1][n] = <<>>
                 /\ \A i \in 1..(n - 1) : pages[1][i] # <<>>
                 /\ Len(ModelCalls(1)) = n
                 /\ n = ((left + op[1].limit - 1) \div op[1].limit) + 1

C5_Running == C5_SliceRead /\ pc[1] # "idle"

C5_Ended == C5_SliceRead /\ Done(1)

C5_SliceReadTerminates == []C5_Result /\ (C5_Running ~> C5_Ended)

\* a short non-empty page was followed by one more call
C5_Witness ==
    /\ C5_Ended
    /\ outcome[1].kind = "return"
    /\ server.n = 3
    /\ op[1].offset = 0
    /\ op[1].limit = 2
    /\ pages[1] = <<<<1, 2>>, <<3>>, <<>>>>

\* C6: when a remote call of a method ends in a Fault, the method ends by
\* raising that Fault (the one of that endpoint, with its faultString), an
\* error entry with the faultString is in the log, and nothing is returned.
C6_FaultReachesCaller ==
    Done(1) =>
        \A i \in 1..Len(raised[1]) :
            raised[1][i].kind = "Fault" =>
                /\ outcome[1] = Raise(raised[1][i])
                /\ outcome[1].kind # "return"
                /\ ErrorLogged(1, raised[1][i].msg)

\* read_records ended by the Fault of a search_read call
C6_Witness ==
    /\ Done(1)
    /\ op[1].name = "read"
    /\ raised[1] = <<Fault("object", "Access Denied")>>
    /\ outcome[1].kind = "raise"

\* C7: every exception of a remote call, a Fault or any other one, of the
\* authenticate call or of a model call, is in the log at error severity when
\* it reaches the caller, and reaches the caller unchanged.
C7_EveryFailureLogged ==
    Done(1) =>
        \A i \in 1..Len(raised[1]) :
            /\ outcome[1] = Raise(raised[1][i])
            /\ ErrorLogged(1, raised[1][i].msg)

\* C8: create_record, update_record and delete_record call execute_kw once,
\* with 'create' and [values], 'write' and [[record_id], values], 'unlink' and
\* [[record_id]]; create_record returns what the server answered, the other
\* two return None.
C8_Expected(o) ==
    IF o.name = "create"
    THEN [model |-> o.model, method |-> "create", args |-> <<ADict(o.values)>>]
    ELSE IF o.name = "update"
    THEN [model |-> o.model, method |-> "write",
          args |-> <<AIds(<<o.record_id>>), ADict(o.values)>>]
    ELSE [model |-> o.model, method |-> "unlink",
          args |-> <<AIds(<<o.record_id>>)>>]

C8_WriteMethodsForward ==
    (Done(1) /\ op[1].name \in {"create", "update", "delete"}) =>
        LET e == C8_Expected(op[1])
            mc == ModelCalls(1)
        IN  /\ invocations[1] = <<e>>
            /\ Len(mc) <= 1
            /\ \A i \in 1..Len(mc) :
                /\ mc[i].model = e.model
                /\ mc[i].inner = e.method
                /\ mc[i].args = e.args
            /\ outcome[1].kind = "return" =>
                /\ Len(mc) = 1
                /\ ret[1].kind = "return"
                /\ outcome[1].val = IF op[1].name = "create" THEN ret[1].val ELSE PyNone

\* update_record has returned
C8_Witness ==
    /\ Done(1)
    /\ op[1].name = "update"
    /\ op[1].record_id = 8
    /\ outcome[1].kind = "return"
    /\ ret[1].val = PyTrue

\* C9: two callers run execute_kw on one client whose uid is unset: each
\* issues at most one remote authenticate call, every model call carries a
\* value some completed authenticate call returned and never None, and when
\* both have returned the uid is set.
C9_SharedClientRace ==
    /\ \A t \in Callers : Len(AuthCalls(t)) <= 1
    /\ authTotal <= 2
    /\ \A t \in Callers : \A i \in 1..Len(calls[t]) :
        calls[t][i].ep = "object" =>
            /\ calls[t][i].uid \in authReturned
            /\ calls[t][i].uid # PyNone
    /\ (\A t \in Callers : Done(t) /\ outcome[t].kind = "return") => uid # PyNone

\* both callers saw the uid unset, both authenticated, both returned
C9_Witness ==
    /\ \A t \in Callers : Done(t) /\ outcome[t].kind = "return"
    /\ authTotal = 2
    /\ calls[1][2].uid # calls[2][2].uid

====
